---- MODULE Spec2Model ----
(***************************************************************************)
(* Transaction session lifecycle of the Luxury Cars checkout backend       *)
(* (src/unnamed/part_001): the in-memory map transactionData, the          *)
(* create-transaction and confirm-transaction handlers, and the 30-minute  *)
(* cleanup timer.                                                          *)
(*                                                                         *)
(* Node runs every handler on one thread: a handler runs without           *)
(* interruption up to its next await, so each handler is one action per    *)
(* segment between awaits (before tx.create / after it, before tx.commit / *)
(* after it).  The payment gateway is the environment: its answers are     *)
(* nondeterministic inputs of the resuming actions.                        *)
(*                                                                         *)
(* An optional JavaScript value is a sequence: <<>> when the property is   *)
(* undefined / null, <<v>> when it holds v.  Times are milliseconds.       *)
(***************************************************************************)
EXTENDS Integers, Sequences, FiniteSets, TLC

(* ------------------------------ bounds -------------------------------- *)

\* number of HTTP requests that can be in flight at the same time
NumProcs == 2

\* number of tokens the gateway can issue in one run
MaxTokens == 2

\* number of HTTP requests received in one run
MaxRequests == 3

\* number of runs of the cleanup timer in one run
MaxSweeps == 2

(* ------------------------- program constants -------------------------- *)

\* 30 * 60 * 1000 in "new Date(Date.now() - 30 * 60 * 1000)"
TTL == 30 * 60 * 1000

\* 30 * 60 * 1000, the period given to setInterval
SweepPeriod == 30 * 60 * 1000

\* transactionData[undefined] uses the property key "undefined"
UndefinedKey == 0

Procs == 1 .. NumProcs

Tokens == 1 .. MaxTokens

\* every string a client can send as token: gateway tokens and "undefined"
Keys == Tokens \cup {UndefinedKey}

(* ------------------------- JavaScript helpers ------------------------- *)

None == <<>>

Some(v) == <<v>>

\* truthiness of an optional number: undefined and 0 are falsy
TruthyNum(x) == x # None /\ x[1] # 0

\* truthiness of an optional string: undefined and "" are falsy
TruthyStr(x) == x # None /\ x[1] # ""

\* /^[^\s@]+@[^\s@]+\.[^\s@]+$/ on a string given as its characters
EmailRegexTest(e) ==
    \E a \in 2 .. Len(e) : \E d \in (a + 2) .. (Len(e) - 1) :
        /\ e[a] = "@"
        /\ e[d] = "."
        /\ \A i \in (1 .. Len(e)) \ {a} : e[i] \notin {"@", " "}

\* a price is a non-negative decimal number, given by its integer part and its
\* hundredths: Decimal(1999, 99) is 1999.99
Decimal(whole, hundredths) == [whole |-> whole, hundredths |-> hundredths]

\* parseInt(x) of a non-negative decimal: the digits before the decimal point
ParseInt(x) == x.whole

RECURSIVE CartTotal(_)
\* cartItems.reduce((total, item) => total + parseInt(item.vehicle.price) * item.quantity, 0)
\* (an item is given by its vehicle price and its quantity)
CartTotal(items) ==
    IF items = <<>> THEN 0
    ELSE CartTotal(SubSeq(items, 1, Len(items) - 1))
         + ParseInt(items[Len(items)].price) * items[Len(items)].quantity

(* ------------------------------ inputs -------------------------------- *)

Ana == [firstName |-> "Ana", email |-> <<"a", "@", "x", ".", "c">>]

Bob == [firstName |-> "Bob", email |-> <<"b", "@", "y", ".", "c">>]

Cart1 == << [price |-> Decimal(50000, 0), quantity |-> 1] >>

Cart2 == << [price |-> Decimal(20000, 0), quantity |-> 2],
           [price |-> Decimal(10000, 0), quantity |-> 1] >>

\* a cart with a price that is not a whole number
Cart3 == << [price |-> Decimal(19999, 50), quantity |-> 2] >>

\* the scenario of the specification: amount 50000, one item, no pricing fields
BaseReq ==
    [amount |-> Some(50000), customerInfo |-> Some(Ana), cartItems |-> Some(Cart1),
     subtotal |-> None, discount |-> None, couponCode |-> None]

\* requests every guard of the handler accepts
GoodReqs ==
    { BaseReq,
      [BaseReq EXCEPT !.customerInfo = Some(Bob), !.cartItems = Some(Cart2),
                      !.subtotal = Some(30000), !.discount = Some(40000),
                      !.couponCode = Some("PROMO")],
      [BaseReq EXCEPT !.amount = Some(60000), !.subtotal = Some(0),
                      !.discount = Some(60000), !.couponCode = Some("")] }

\* requests one guard of the handler rejects
BadReqs ==
    { [BaseReq EXCEPT !.amount = None],
      [BaseReq EXCEPT !.amount = Some(0)],
      [BaseReq EXCEPT !.amount = Some(-5)],
      [BaseReq EXCEPT !.customerInfo = None],
      [BaseReq EXCEPT !.customerInfo = Some([Ana EXCEPT !.firstName = ""])],
      [BaseReq EXCEPT !.customerInfo = Some([Ana EXCEPT !.email = <<>>])],
      [BaseReq EXCEPT !.customerInfo = Some([Ana EXCEPT !.email = <<"a", "@", "x">>])],
      [BaseReq EXCEPT !.cartItems = None],
      [BaseReq EXCEPT !.cartItems = Some(<<>>)],
      [BaseReq EXCEPT !.discount = Some(60000)] }

Requests == GoodReqs \cup BadReqs

\* the pricing fields a request can carry: absent, 0, or a positive number
Subtotals == {None, Some(0), Some(30000)}

Discounts == {None, Some(0), Some(40000)}

\* accepted requests over every combination of the pricing fields and the carts
PricingReqs ==
    { [BaseReq EXCEPT !.subtotal = s, !.discount = d, !.cartItems = Some(c)] :
          s \in Subtotals, d \in Discounts, c \in {Cart1, Cart2, Cart3} }

VARIABLES
    transactionData,  \* the store: property key -> stored record
    proc,             \* per request slot: position and locals of its handler
    gateway,          \* tokens the gateway issued -> the order it opened
    now,              \* Date.now()
    nextSweep,        \* time of the next run of the cleanup timer
    cleanedCount,     \* cleanedCount of the last cleanup run
    started,          \* requests received so far
    sweeps,           \* cleanup runs so far
    lastSweep,        \* history: time, removed keys and kept keys of the last cleanup run
    committed,        \* history: tokens whose tx.commit returned in a confirm
    commitFailed      \* history: tokens whose tx.commit threw in a confirm

vars == <<transactionData, proc, gateway, now, nextSweep, cleanedCount, started,
          sweeps, lastSweep, committed, commitFailed>>

\* a request slot: pc and op say where its handler is; req, token, storedData,
\* buyOrder and response are the handler's locals, out is the answer it sent;
\* calls counts the gateway calls it issued, sends the resend.emails.send calls,
\* and gw tells how the last awaited call ended;
\* late / retry record that the confirm began after a commit for its token had
\* returned / had been rejected.  req, storedData and buyOrder end with the handler
Idle ==
    [pc |-> "idle", op |-> "none", req |-> None, token |-> None, storedData |-> None,
     buyOrder |-> None, response |-> None, calls |-> 0, gw |-> "none",
     sends |-> 0, late |-> FALSE, retry |-> FALSE, out |-> None]

Init ==
    /\ transactionData = << >>
    /\ proc = [p \in Procs |-> Idle]
    /\ gateway = << >>
    /\ now = 0
    /\ nextSweep = SweepPeriod
    /\ cleanedCount = 0
    /\ started = 0
    /\ sweeps = 0
    /\ lastSweep = [at |-> 0, removed |-> {}, kept |-> {}]
    /\ committed = {}
    /\ commitFailed = {}

\* a new request is handled in slot p: the first slot with no handler in flight
Accepts(p) ==
    /\ started < MaxRequests
    /\ proc[p].pc \in {"idle", "done"}
    /\ \A q \in Procs : q < p => proc[q].pc \notin {"idle", "done"}

(* --------------------------- Session Store ---------------------------- *)

\* transactionData[key] = record
StoreInsert(store, key, record) ==
    [k \in DOMAIN store \cup {key} |-> IF k = key THEN record ELSE store[k]]

\* delete transactionData[key]
StoreDelete(store, key) ==
    [k \in DOMAIN store \ {key} |-> store[k]]

\* a lookup that falls back to an empty object: transactionData[key] || {}
StoreLookup_OrEmpty(store, key) ==
    IF key \in DOMAIN store THEN Some(store[key])
    ELSE Some([customerInfo |-> None, cartItems |-> None, subtotal |-> None,
               discount |-> None, couponCode |-> None, createdAt |-> None,
               buyOrder |-> None, sessionId |-> None])

\* a lookup that ignores the key and gives the record listed first
StoreLookup_First(store, key) ==
    IF DOMAIN store = {} THEN None
    ELSE Some(store[CHOOSE k \in DOMAIN store : \A u \in DOMAIN store : k <= u])

\* transactionData[key], undefined when there is none
StoreLookup(store, key) ==
    IF key \in DOMAIN store THEN Some(store[key]) ELSE None

(* ------------------------- Payment Gateway ---------------------------- *)

\* the token of the next transaction the gateway opens: never one it issued
FreshToken(gw) == CHOOSE t \in Tokens \ DOMAIN gw : \A u \in Tokens \ DOMAIN gw : t <= u

\* what "await tx.create(buyOrder, sessionId, amount, returnUrl)" resolves to
CreateResponse(gw, hasToken, hasUrl) ==
    [token |-> IF hasToken THEN Some(FreshToken(gw)) ELSE None,
     url   |-> IF hasUrl THEN Some("https://webpay/init") ELSE None]

\* what "await tx.commit(token)" resolves to for a transaction the gateway opened
CommitResponse(gw, token, status, card) ==
    [status |-> status, buy_order |-> Some(gw[token].buyOrder),
     amount |-> gw[token].amount, card_detail |-> card]

(* ---------------------- POST /api/create-transaction ------------------ *)

\* a handler without the discount guard
DiscountInvalid_Never(discount, amount) == FALSE

\* if (discount && discount > amount)
DiscountInvalid(discount, amount) ==
    TruthyNum(discount) /\ discount[1] > amount[1]

\* the guards of the handler in their order: the 400 answer, or None when all pass
ValidationError(r) ==
    IF ~TruthyNum(r.amount) \/ r.amount[1] <= 0
        THEN Some("Invalid amount")
    ELSE IF r.customerInfo = None \/ r.customerInfo[1].firstName = ""
            \/ r.customerInfo[1].email = <<>>
        THEN Some("Customer information is required")
    ELSE IF r.cartItems = None \/ Len(r.cartItems[1]) = 0
        THEN Some("Cart items are required")
    ELSE IF ~EmailRegexTest(r.customerInfo[1].email)
        THEN Some("Invalid email format")
    ELSE IF DiscountInvalid(r.discount, r.amount)
        THEN Some("Invalid discount")
    ELSE None

\* the object literal stored under the token
NewRecord(r, buyOrder, createdAt) ==
    [customerInfo |-> r.customerInfo[1],
     cartItems    |-> r.cartItems[1],
     subtotal     |-> IF TruthyNum(r.subtotal) THEN r.subtotal[1]
                      ELSE CartTotal(r.cartItems[1]),
     discount     |-> IF TruthyNum(r.discount) THEN r.discount[1] ELSE 0,
     couponCode   |-> IF TruthyStr(r.couponCode) THEN r.couponCode ELSE None,
     createdAt    |-> createdAt,
     buyOrder     |-> buyOrder,
     sessionId    |-> buyOrder]

\* the property key response.token is converted to
KeyOf(token) == IF token = None THEN UndefinedKey ELSE token[1]

\* a handler that stores nothing after tx.create resolved
StoreAfterCreate_NoInsert(store, response, record) == store

\* the store after the lines that follow "await tx.create(...)"
StoreAfterCreate(store, response, record) ==
    StoreInsert(store, KeyOf(response.token), record)

\* the answer of the handler after tx.create resolved
CreateAnswer(response, buyOrder) ==
    IF response.url # None
        THEN [status |-> 200, success |-> TRUE, url |-> response.url[1],
              token |-> response.token, buyOrder |-> buyOrder]
        ELSE [status |-> 500, error |-> "Error creating transaction"]

\* the handler from its first line to "await tx.create(...)"
BeginPurchase(p, r) ==
    /\ Accepts(p)
    /\ started' = started + 1
    /\ proc' = [proc EXCEPT ![p] =
          IF ValidationError(r) # None
              THEN [Idle EXCEPT !.pc = "done", !.op = "begin",
                       !.out = Some([status |-> 400, error |-> ValidationError(r)[1]])]
              ELSE [Idle EXCEPT !.pc = "awaitCreate", !.op = "begin", !.req = Some(r),
                       !.buyOrder = Some(now), !.calls = 1]]
    /\ UNCHANGED <<transactionData, gateway, now, nextSweep, cleanedCount,
                   sweeps, lastSweep, committed, commitFailed>>

\* tx.create resolved: the handler from there to its answer
CreateReturn(p, hasToken, hasUrl) ==
    /\ proc[p].pc = "awaitCreate"
    /\ hasToken => Tokens \ DOMAIN gateway # {}
    /\ LET response == CreateResponse(gateway, hasToken, hasUrl)
           r        == proc[p].req[1]
           record   == NewRecord(r, proc[p].buyOrder[1], now)
       IN  /\ transactionData' = StoreAfterCreate(transactionData, response, record)
           /\ gateway' = IF hasToken
                  THEN StoreInsert(gateway, response.token[1],
                          [buyOrder |-> proc[p].buyOrder[1], amount |-> r.amount[1]])
                  ELSE gateway
           /\ proc' = [proc EXCEPT ![p].pc = "done",
                   ![p].req = None, ![p].storedData = None, ![p].buyOrder = None,
                                   ![p].gw = "returned",
                                   ![p].response = Some(response),
                                   ![p].out = Some(CreateAnswer(response, proc[p].buyOrder[1]))]
    /\ UNCHANGED <<now, nextSweep, cleanedCount, started, sweeps, lastSweep, committed,
                   commitFailed>>

\* a catch block that resets the store
StoreAfterCreateError_Reset(store) == << >>

\* the store after the catch block of the handler
StoreAfterCreateError(store) == store

\* tx.create rejected: the catch block
CreateThrow(p) ==
    /\ proc[p].pc = "awaitCreate"
    /\ transactionData' = StoreAfterCreateError(transactionData)
    /\ proc' = [proc EXCEPT ![p].pc = "done",
                   ![p].req = None, ![p].storedData = None, ![p].buyOrder = None,
                   ![p].gw = "threw",
                   ![p].out = Some([status |-> 500, error |-> "Error creating transaction"])]
    /\ UNCHANGED <<gateway, now, nextSweep, cleanedCount, started, sweeps, lastSweep,
                   committed, commitFailed>>

(* --------------------- POST /api/confirm-transaction ------------------ *)

\* tokens a confirm request can carry: none, or any key string
ConfirmInputs == {None} \cup {Some(k) : k \in Keys}

\* fullResponse, built from the gateway's answer and the record read before the await
FullResponse(response, storedData) ==
    [status          |-> 200,
     success         |-> TRUE,
     txStatus        |-> response.status,
     orderId         |-> IF response.buy_order # None THEN response.buy_order[1]
                         ELSE storedData.buyOrder,
     amount          |-> response.amount,
     subtotal        |-> storedData.subtotal,
     discount        |-> storedData.discount,
     couponCode      |-> storedData.couponCode,
     cardLast4Digits |-> IF response.card_detail # None THEN response.card_detail[1]
                         ELSE "N/A",
     customerInfo    |-> storedData.customerInfo,
     cartItems       |-> storedData.cartItems]

\* a handler that empties the store after a commit
StoreAfterCommit_Clears(store, token) == << >>

\* a handler that forgets "delete transactionData[token]"
StoreAfterCommit_NoDelete(store, token) == store

\* the store after the lines that follow "await tx.commit(token)"
StoreAfterCommit(store, token) == StoreDelete(store, token)

\* a handler that deletes the record in the catch block as well
StoreAfterCommitError_Deletes(store, token) == StoreDelete(store, token)

\* the store after the catch block of the handler
StoreAfterCommitError(store, token) == store

\* the handler from its first line to "await tx.commit(token)"
ConfirmPurchase(p, tok) ==
    /\ Accepts(p)
    /\ started' = started + 1
    /\ proc' = [proc EXCEPT ![p] =
          IF tok = None
              THEN [Idle EXCEPT !.pc = "done", !.op = "confirm",
                       !.out = Some([status |-> 400, error |-> "Token is required"])]
          ELSE IF StoreLookup(transactionData, tok[1]) = None
              THEN [Idle EXCEPT !.pc = "done", !.op = "confirm", !.token = tok,
                       !.late = (tok[1] \in committed),
                       !.out = Some([status |-> 404, error |-> "Transaction data not found"])]
              ELSE [Idle EXCEPT !.pc = "awaitCommit", !.op = "confirm", !.token = tok,
                       !.late = (tok[1] \in committed),
                       !.retry = (tok[1] \in commitFailed),
                       !.storedData = StoreLookup(transactionData, tok[1]),
                       !.calls = 1]]
    /\ UNCHANGED <<transactionData, gateway, now, nextSweep, cleanedCount,
                   sweeps, lastSweep, committed, commitFailed>>

\* the answers of the gateway to a commit: authorized with the card, or failed
CommitAnswers ==
    { [status |-> "AUTHORIZED", card |-> Some("6623")], [status |-> "FAILED", card |-> None] }

\* a handler that reads transactionData[token] after the await instead of before:
\* the read of a record that is gone throws, and the catch block answers 500
CommitReturn_ReadsAfter(p, status, card) ==
    /\ proc[p].pc = "awaitCommit"
    /\ proc[p].token[1] \in DOMAIN gateway
    /\ LET token    == proc[p].token[1]
           response == CommitResponse(gateway, token, status, card)
           found    == StoreLookup(transactionData, token)
       IN  /\ transactionData' = StoreAfterCommit(transactionData, token)
           /\ proc' = [proc EXCEPT ![p].pc = "done",
                   ![p].req = None, ![p].storedData = None, ![p].buyOrder = None,
                          ![p].gw = "returned",
                          ![p].response = Some(response),
                          ![p].out = IF found = None
                              THEN Some([status |-> 500, error |-> "Error confirming transaction"])
                              ELSE Some(FullResponse(response, found[1]))]
           /\ committed' = committed \cup {token}
    /\ UNCHANGED <<gateway, now, nextSweep, cleanedCount, started, sweeps, lastSweep,
                   commitFailed>>

\* tx.commit resolved (the gateway knows the token): the handler from there to its answer
CommitReturn(p, status, card) ==
    /\ proc[p].pc = "awaitCommit"
    /\ proc[p].token[1] \in DOMAIN gateway
    /\ LET token    == proc[p].token[1]
           response == CommitResponse(gateway, token, status, card)
       IN  /\ transactionData' = StoreAfterCommit(transactionData, token)
           /\ proc' = [proc EXCEPT ![p].pc = "done",
                   ![p].req = None, ![p].storedData = None, ![p].buyOrder = None,
                          ![p].gw = "returned",
                          ![p].response = Some(response),
                          ![p].out = Some(FullResponse(response, proc[p].storedData[1]))]
           /\ committed' = committed \cup {token}
    /\ UNCHANGED <<gateway, now, nextSweep, cleanedCount, started, sweeps, lastSweep,
                   commitFailed>>

\* tx.commit rejected: the catch block
CommitThrow(p) ==
    /\ proc[p].pc = "awaitCommit"
    /\ transactionData' = StoreAfterCommitError(transactionData, proc[p].token[1])
    /\ proc' = [proc EXCEPT ![p].pc = "done",
                   ![p].req = None, ![p].storedData = None, ![p].buyOrder = None,
                   ![p].gw = "threw",
                   ![p].out = Some([status |-> 500, error |-> "Error confirming transaction"])]
    /\ commitFailed' = commitFailed \cup {proc[p].token[1]}
    /\ UNCHANGED <<gateway, now, nextSweep, cleanedCount, started, sweeps, lastSweep,
                   committed>>

(* ------------------------ POST /api/send-email ------------------------ *)

\* 500000 in "reactTemplate.length > 500000"
TemplateLimit == 500000

\* a body every guard of the handler accepts (reactTemplate is given by its length)
GoodMail ==
    [to |-> Some(Ana.email), subject |-> Some("Receipt"), reactTemplate |-> Some(1200)]

\* bodies of a send-email request: the accepted one, and one per guard that rejects
MailInputs ==
    { GoodMail,
      [GoodMail EXCEPT !.to = None],
      [GoodMail EXCEPT !.subject = Some("")],
      [GoodMail EXCEPT !.reactTemplate = Some(0)],
      [GoodMail EXCEPT !.to = Some(<<"a", "@", "x">>)],
      [GoodMail EXCEPT !.reactTemplate = Some(TemplateLimit + 1)] }

\* the 400 answer of the first guard that rejects the body, None when all accept
MailValidationError(m) ==
    IF m.to = None \/ m.to[1] = <<>> \/ ~TruthyStr(m.subject) \/ ~TruthyNum(m.reactTemplate)
        THEN Some([status |-> 400, error |-> "Missing required fields"])
    ELSE IF ~EmailRegexTest(m.to[1])
        THEN Some([status |-> 400, error |-> "Invalid email format"])
    ELSE IF m.reactTemplate[1] > TemplateLimit
        THEN Some([status |-> 400, error |-> "Email template too large"])
    ELSE None

\* the handler from its first line to "await resend.emails.send(...)"
SendEmail(p, m) ==
    /\ Accepts(p)
    /\ started' = started + 1
    /\ proc' = [proc EXCEPT ![p] =
          IF MailValidationError(m) # None
              THEN [Idle EXCEPT !.pc = "done", !.op = "email",
                                !.out = MailValidationError(m)]
              ELSE [Idle EXCEPT !.pc = "awaitEmail", !.op = "email", !.sends = 1]]
    /\ UNCHANGED <<transactionData, gateway, now, nextSweep, cleanedCount,
                   sweeps, lastSweep, committed, commitFailed>>

\* resend.emails.send resolved: the 200 answer
EmailReturn(p) ==
    /\ proc[p].pc = "awaitEmail"
    /\ proc' = [proc EXCEPT ![p].pc = "done", ![p].gw = "returned",
                   ![p].out = Some([status |-> 200, success |-> TRUE,
                                    message |-> "Email sent successfully"])]
    /\ UNCHANGED <<transactionData, gateway, now, nextSweep, cleanedCount, started,
                   sweeps, lastSweep, committed, commitFailed>>

\* resend.emails.send rejected: the catch block
EmailThrow(p) ==
    /\ proc[p].pc = "awaitEmail"
    /\ proc' = [proc EXCEPT ![p].pc = "done", ![p].gw = "threw",
                   ![p].out = Some([status |-> 500, error |-> "Error sending email"])]
    /\ UNCHANGED <<transactionData, gateway, now, nextSweep, cleanedCount, started,
                   sweeps, lastSweep, committed, commitFailed>>

(* ---------------------------- GET /api/health ------------------------- *)

\* activeTransactions: Object.keys(transactionData).length
ActiveTransactions(store) == Cardinality(DOMAIN store)

\* the body of the health answer (the fields that depend on the state)
HealthResponse(store) == [status |-> "OK", activeTransactions |-> ActiveTransactions(store)]

(* --------------------------- Expiry Sweeper --------------------------- *)

\* the comparison with <= in place of <
Expired_Inclusive(data, t) == data.createdAt <= t - TTL

\* the comparison turned round: > in place of <
Expired_Flipped(data, t) == data.createdAt > t - TTL

\* the ISO string compared with the Date without "new Date(...)": never true
Expired_StringCompare(data, t) == FALSE

\* a cleanup that waits for twice the age
Expired_TwiceTTL(data, t) == data.createdAt < t - 2 * TTL

\* data.createdAt && new Date(data.createdAt) < thirtyMinutesAgo
\* (createdAt is an ISO string of millisecond resolution: never falsy, and
\* new Date(...) gives back the millisecond it was made from)
Expired(data, t) == data.createdAt < t - TTL

RECURSIVE SweepKeys(_, _, _, _)
\* the forEach over Object.keys(transactionData): the store and cleanedCount after it
SweepKeys(keys, store, count, t) ==
    IF keys = {} THEN [store |-> store, cleanedCount |-> count]
    ELSE LET token == CHOOSE k \in keys : TRUE
         IN  IF Expired(store[token], t)
                 THEN SweepKeys(keys \ {token}, StoreDelete(store, token), count + 1, t)
                 ELSE SweepKeys(keys \ {token}, store, count, t)

\* one run of the setInterval callback
Sweep ==
    /\ now >= nextSweep
    /\ LET r == SweepKeys(DOMAIN transactionData, transactionData, 0, now)
       IN  /\ transactionData' = r.store
           /\ cleanedCount' = r.cleanedCount
    /\ nextSweep' = now + SweepPeriod
    /\ sweeps' = sweeps + 1
    /\ lastSweep' = [at |-> now,
                     removed |-> DOMAIN transactionData \ DOMAIN transactionData',
                     kept |-> DOMAIN transactionData']
    /\ UNCHANGED <<proc, gateway, now, started, committed, commitFailed>>

(* -------------------------------- clock ------------------------------- *)

\* time passes.  The clock is observed at the instants the cleanup timer is due,
\* and the timer runs in the millisecond it is due: a record made at one of these
\* instants is exactly TTL old at the next run and 2 * TTL old at the one after
Tick ==
    /\ sweeps < MaxSweeps
    /\ now < nextSweep
    /\ now' = nextSweep
    /\ UNCHANGED <<transactionData, proc, gateway, nextSweep, cleanedCount, started,
                   sweeps, lastSweep, committed, commitFailed>>

Next ==
    \/ \E p \in Procs, r \in Requests : BeginPurchase(p, r)
    \/ \E p \in Procs, noToken \in BOOLEAN, noUrl \in BOOLEAN : CreateReturn(p, ~noToken, ~noUrl)
    \/ \E p \in Procs : CreateThrow(p)
    \/ \E p \in Procs, tok \in ConfirmInputs : ConfirmPurchase(p, tok)
    \/ \E p \in Procs, a \in CommitAnswers : CommitReturn(p, a.status, a.card)
    \/ \E p \in Procs : CommitThrow(p)
    \/ Sweep
    \/ Tick

Spec == Init /\ [][Next]_vars

\* the server with a timer that keeps running: setInterval calls the cleanup
\* callback every period for as long as the process lives
SpecFair == Spec /\ WF_vars(Tick) /\ WF_vars(Sweep)

\* the create-transaction handler on its own, over every pricing input
NextPricing ==
    \/ \E p \in Procs, r \in PricingReqs : BeginPurchase(p, r)
    \/ \E p \in Procs, noToken \in BOOLEAN, noUrl \in BOOLEAN : CreateReturn(p, ~noToken, ~noUrl)
    \/ \E p \in Procs : CreateThrow(p)

SpecPricing == Init /\ [][NextPricing]_vars

\* the server with its send-email endpoint in use as well
NextEmail ==
    \/ Next
    \/ \E p \in Procs, m \in MailInputs : SendEmail(p, m)
    \/ \E p \in Procs : EmailReturn(p)
    \/ \E p \in Procs : EmailThrow(p)

SpecEmail == Init /\ [][NextEmail]_vars

(* ------------------------------ properties --------------------------- *)

\* the answer a finished handler sent
Status(p) == proc[p].out[1].status

\* slot p has finished a request of kind op
Finished(p, op) == proc[p].pc = "done" /\ proc[p].op = op

\* in this step the gateway call of slot p, awaited at pc, ends the way "how" says
GatewayEnds(p, pc, how) == proc[p].pc = pc /\ proc'[p].gw = how

\* C1: once tx.commit has returned in a confirm of token t (whatever status the
\* gateway reported), t has no record in the store, and every confirm of t that
\* starts afterwards is answered 404 "Transaction data not found": it never waits
\* for a commit and never sends a confirmation result again.
C1_ConfirmConsumesOnce ==
    /\ \A t \in committed : t \notin DOMAIN transactionData
    /\ \A p \in Procs : proc[p].late =>
          /\ Finished(p, "confirm")
          /\ proc[p].out[1] = [status |-> 404, error |-> "Transaction data not found"]

\* a confirm of an already confirmed token was answered 404
C1_Witness ==
    \E p \in Procs :
        /\ Finished(p, "confirm") /\ proc[p].late /\ Status(p) = 404
        /\ proc[p].token[1] \in committed

C3_NoUrlNoRecord ==
    [][\A p \in Procs :
          (GatewayEnds(p, "awaitCreate", "returned") /\ proc'[p].response[1].url = None) =>
              /\ proc'[p].out[1].status = 500
              /\ transactionData' = transactionData
      ]_vars

\* C4: when tx.create is rejected the handler answers 500 and the store is
\* unchanged: nothing is inserted, modified or removed.
C4_CreateErrorKeepsStore ==
    [][\A p \in Procs :
          GatewayEnds(p, "awaitCreate", "threw") =>
              /\ proc'[p].pc = "done" /\ proc'[p].out[1].status = 500
              /\ transactionData' = transactionData
      ]_vars

\* a create call was rejected while the store held a record
C4_Witness ==
    \E p \in Procs :
        /\ Finished(p, "begin") /\ proc[p].gw = "threw" /\ Status(p) = 500
        /\ DOMAIN transactionData # {}

\* the preconditions of beginPurchase as the specification lists them
PreconditionFails(r) ==
    \/ r.amount = None
    \/ r.amount # None /\ ~(r.amount[1] > 0)
    \/ r.customerInfo = None
    \/ r.customerInfo # None /\ (r.customerInfo[1].firstName = "" \/ r.customerInfo[1].email = <<>>)
    \/ r.cartItems = None
    \/ r.cartItems # None /\ r.cartItems[1] = <<>>
    \/ r.discount # None /\ r.amount # None /\ r.discount[1] > r.amount[1]

\* C5: a begin request that fails a precondition (amount missing or not > 0,
\* customer info without name or email, cart missing or empty, discount greater
\* than amount) is answered 400 in its first step, before any tx.create call is
\* issued, and the store is unchanged.
C5_InvalidRejectedBeforeGateway ==
    [][\A p \in Procs : \A r \in Requests :
          (started' = started + 1 /\ proc'[p].op = "begin" /\ PreconditionFails(r)
             /\ BeginPurchase(p, r)) =>
              /\ proc'[p].pc = "done" /\ proc'[p].out[1].status = 400
              /\ proc'[p].calls = 0 /\ proc'[p].gw = "none"
              /\ transactionData' = transactionData
              /\ gateway' = gateway
      ]_vars

\* a request whose discount exceeds its amount was rejected while the store held a record
C5_Witness ==
    \E p \in Procs :
        /\ Finished(p, "begin") /\ proc[p].calls = 0
        /\ proc[p].out[1] = [status |-> 400, error |-> "Invalid discount"]
        /\ DOMAIN transactionData # {}

\* C6: every record in the store has discount <= subtotal.
C6_DiscountWithinSubtotal ==
    \A k \in DOMAIN transactionData :
        transactionData[k].discount <= transactionData[k].subtotal

Age(data, t) == t - data.createdAt

\* this step is a run of the cleanup timer
SweepRuns == sweeps' = sweeps + 1

\* C8 as stated: a cleanup run at time now deletes every record with
\* now - createdAt >= TTL, one of age exactly TTL included, and cleanedCount is the
\* number of records it deleted.
C8_SweepRemovesAtTTL ==
    [][SweepRuns =>
          /\ \A k \in DOMAIN transactionData :
                Age(transactionData[k], now) >= TTL => k \notin DOMAIN transactionData'
          /\ cleanedCount' = Cardinality(DOMAIN transactionData \ DOMAIN transactionData')
      ]_vars

\* C8 amended: a cleanup run at time now deletes every record with
\* now - createdAt > TTL and keeps a record of age exactly TTL; cleanedCount is the
\* number of records it deleted.
C8_SweepRemovesPastTTL ==
    [][SweepRuns =>
          /\ \A k \in DOMAIN transactionData :
                /\ Age(transactionData[k], now) > TTL => k \notin DOMAIN transactionData'
                /\ Age(transactionData[k], now) = TTL =>
                      /\ k \in DOMAIN transactionData'
                      /\ transactionData'[k] = transactionData[k]
          /\ cleanedCount' = Cardinality(DOMAIN transactionData \ DOMAIN transactionData')
      ]_vars

\* a cleanup run has just removed a record and kept one that was exactly TTL old
C8_Witness ==
    /\ sweeps >= 1 /\ lastSweep.at = now
    /\ cleanedCount >= 1 /\ cleanedCount = Cardinality(lastSweep.removed)
    /\ \E k \in lastSweep.kept \cap DOMAIN transactionData :
          Age(transactionData[k], lastSweep.at) = TTL

\* C9: a cleanup run never deletes a record younger than the TTL, always deletes
\* one older than the TTL, and leaves the records it keeps unchanged (it adds none).
C9_SweepRespectsTTL ==
    [][SweepRuns =>
          /\ DOMAIN transactionData' \subseteq DOMAIN transactionData
          /\ \A k \in DOMAIN transactionData :
                /\ Age(transactionData[k], now) < TTL => k \in DOMAIN transactionData'
                /\ Age(transactionData[k], now) > TTL => k \notin DOMAIN transactionData'
                /\ k \in DOMAIN transactionData' => transactionData'[k] = transactionData[k]
      ]_vars

\* a cleanup run has just removed a record and kept one younger than the TTL
C9_Witness ==
    /\ sweeps >= 1 /\ lastSweep.at = now
    /\ lastSweep.removed # {}
    /\ \E k \in lastSweep.kept \cap DOMAIN transactionData :
          Age(transactionData[k], lastSweep.at) < TTL

\* C10: when a begin has passed validation and tx.create resolves to a token and a
\* redirect URL, the store then holds a record under that token carrying the
\* customerInfo and cartItems of the request, the store grew by exactly that one
\* key (the token was not there before), every other record is as it was, and the
\* answer is 200 with that token and the redirect URL.
C10_BeginInsertsOneRecord ==
    [][\A p \in Procs :
          (GatewayEnds(p, "awaitCreate", "returned")
             /\ proc'[p].response[1].token # None /\ proc'[p].response[1].url # None) =>
              LET t == proc'[p].response[1].token[1]
                  r == proc[p].req[1]
              IN  /\ ValidationError(r) = None
                  /\ t \notin DOMAIN transactionData
                  /\ DOMAIN transactionData' = DOMAIN transactionData \cup {t}
                  /\ Cardinality(DOMAIN transactionData')
                        = Cardinality(DOMAIN transactionData) + 1
                  /\ transactionData'[t].customerInfo = r.customerInfo[1]
                  /\ transactionData'[t].cartItems = r.cartItems[1]
                  /\ \A k \in DOMAIN transactionData : transactionData'[k] = transactionData[k]
                  /\ proc'[p].pc = "done"
                  /\ proc'[p].out[1].status = 200
                  /\ proc'[p].out[1].token = Some(t)
                  /\ proc'[p].out[1].url = proc'[p].response[1].url[1]
      ]_vars

\* a begin was answered 200 with a token under which the store holds its record
C10_Witness ==
    \E p \in Procs :
        /\ Finished(p, "begin") /\ Status(p) = 200
        /\ proc[p].out[1].token # None
        /\ proc[p].out[1].token[1] \in DOMAIN transactionData
        /\ transactionData[proc[p].out[1].token[1]].customerInfo = Bob
        /\ transactionData[proc[p].out[1].token[1]].cartItems = Cart2
        /\ Cardinality(DOMAIN transactionData) = 2

\* in this step slot p accepts a new request of kind op
Starts(p, op) == Accepts(p) /\ started' = started + 1 /\ proc'[p].op = op

\* C11: a confirm of token t racing with the cleanup run that removes the record of
\* t is harmless.  A confirm that looks the record up after the run is answered 404
\* without a gateway call.  A confirm that looked it up before the run and whose
\* commit ends after it is answered from the record it read: 200 when tx.commit
\* returned, 500 only when tx.commit itself threw; its "delete" of the absent record
\* leaves the store as it is.  The record of t is absent from the run onwards.
C11_SweepConfirmRaceBenign ==
    [][\A p \in Procs : \A t \in lastSweep.removed \cap Tokens :
          /\ (Starts(p, "confirm") /\ proc'[p].token = Some(t)) =>
                /\ proc'[p].pc = "done" /\ proc'[p].out[1].status = 404
                /\ proc'[p].calls = 0
          /\ (proc[p].pc = "awaitCommit" /\ proc[p].token = Some(t)
                                         /\ proc'[p].pc = "done") =>
                /\ transactionData' = transactionData
                /\ proc'[p].gw = "returned" =>
                      proc'[p].out = Some(FullResponse(proc'[p].response[1],
                                                       proc[p].storedData[1]))
                /\ proc'[p].out[1].status = 500 => proc'[p].gw = "threw"
          /\ t \notin DOMAIN transactionData'
      ]_vars

\* a confirm was answered 200 although the cleanup run removed its record while
\* tx.commit was awaited
C11_Witness ==
    \E p \in Procs :
        /\ Finished(p, "confirm") /\ Status(p) = 200
        /\ proc[p].token[1] \in lastSweep.removed

\* C12: the activeTransactions of the health answer is the number of pending
\* purchases.  Stated step by step: after every step the count is the number of
\* keys obtained from the keys before it by adding the key of a begin answered 200
\* in the step and removing the token a confirm committed and the keys the cleanup
\* run removed in the step; a begin that is answered with an error adds nothing.
C12_HealthCountsPending ==
    [][LET begunNow     == { KeyOf(proc'[p].response[1].token) : p \in
                               { q \in Procs : /\ GatewayEnds(q, "awaitCreate", "returned")
                                               /\ proc'[q].out[1].status = 200 } }
           confirmedNow == { proc[p].token[1] : p \in
                               { q \in Procs : GatewayEnds(q, "awaitCommit", "returned") } }
           sweptNow     == IF SweepRuns THEN lastSweep'.removed ELSE {}
       IN  HealthResponse(transactionData').activeTransactions =
               Cardinality((DOMAIN transactionData \cup begunNow)
                               \ (confirmedNow \cup sweptNow))
      ]_vars

\* C13: storing a record under a key that already holds one is refused: the begin
\* is answered with an error and the record that was there stays as it was.
C13_DuplicateInsertRejected ==
    [][\A p \in Procs :
          (/\ GatewayEnds(p, "awaitCreate", "returned")
           /\ KeyOf(proc'[p].response[1].token) \in DOMAIN transactionData) =>
              /\ proc'[p].out[1].status # 200
              /\ transactionData'[KeyOf(proc'[p].response[1].token)] =
                     transactionData[KeyOf(proc'[p].response[1].token)]
      ]_vars

\* C14: every confirm whose tx.commit returned has issued a resend.emails.send call
\* for the receipt by the time it has finished, and its answer is the 200 answer.
C14_ConfirmSendsReceipt ==
    \A p \in Procs :
        (Finished(p, "confirm") /\ proc[p].gw = "returned") =>
            proc[p].sends >= 1 /\ Status(p) = 200

\* C15: of two confirms of the same token that are in progress together, at most
\* one passes the lookup and awaits tx.commit, and at most one is answered 200.
C15_OneConfirmPerToken ==
    \A p \in Procs : \A q \in Procs \ {p} :
        (proc[p].op = "confirm" /\ proc[q].op = "confirm"
             /\ proc[p].token # None /\ proc[p].token = proc[q].token) =>
            /\ ~(proc[p].pc = "awaitCommit" /\ proc[q].pc = "awaitCommit")
            /\ ~(proc[p].pc = "done" /\ proc[q].pc = "done"
                     /\ Status(p) = 200 /\ Status(q) = 200)

\* C16 as claimed: in every state no stored record is older than TTL.
C16_NoRecordOlderThanTTL ==
    \A k \in DOMAIN transactionData : Age(transactionData[k], now) <= TTL

\* C16: in every state after the first cleanup run, no stored record was older than
\* TTL at the most recent run (a record can be older than TTL between two runs).
C16_NoRecordPastTTLAtLastRun ==
    sweeps >= 1 =>
        \A k \in DOMAIN transactionData : Age(transactionData[k], lastSweep.at) <= TTL

\* between two runs the store holds a record older than TTL that the last run kept
C16_Witness ==
    /\ sweeps >= 1
    /\ \E k \in DOMAIN transactionData :
          /\ Age(transactionData[k], now) > TTL
          /\ Age(transactionData[k], lastSweep.at) >= 0

C18_OtherTokensUntouched ==
    [][\A p \in Procs : \A u \in Keys :
          LET same == StoreLookup(transactionData', u) = StoreLookup(transactionData, u)
          IN  /\ (GatewayEnds(p, "awaitCreate", "returned")
                      /\ u # KeyOf(proc'[p].response[1].token)) => same
              /\ ((Starts(p, "confirm")
                       \/ (proc[p].pc = "awaitCommit" /\ proc'[p].pc = "done"))
                      /\ proc'[p].token # Some(u)) => same
              /\ (Starts(p, "begin") \/ GatewayEnds(p, "awaitCreate", "threw")) => same
      ]_vars

\* a confirm was answered 200 while the record of another token is stored
C18_Witness ==
    \E p \in Procs :
        /\ Finished(p, "confirm") /\ Status(p) = 200
        /\ \E u \in DOMAIN transactionData \cap Tokens : proc[p].token # Some(u)

\* C19: no two stored records share a buyOrder or a sessionId, and no two begins
\* that await tx.create hold the same buyOrder.
C19_DistinctBuyOrders ==
    /\ \A k \in DOMAIN transactionData : \A u \in DOMAIN transactionData \ {k} :
          /\ transactionData[k].buyOrder # transactionData[u].buyOrder
          /\ transactionData[k].sessionId # transactionData[u].sessionId
    /\ \A p \in Procs : \A q \in Procs \ {p} :
          (proc[p].pc = "awaitCreate" /\ proc[q].pc = "awaitCreate") =>
              proc[p].buyOrder # proc[q].buyOrder

\* C20: the 200 answer of a confirm of token t carries the status and amount of the
\* gateway's commit answer for t and the business data of the record the begin that
\* got t stored.  Step by step: that begin stores under t, which held nothing, the
\* record made from its own request; the record of a token never changes while it is
\* stored and never comes back once removed; the confirm reads the record under t,
\* holds it while it awaits tx.commit, and builds its answer from it.
C20_ResultFromOwnRecord ==
    [][/\ \A t \in Tokens :
             /\ (t \in DOMAIN transactionData /\ t \in DOMAIN transactionData') =>
                    transactionData'[t] = transactionData[t]
             /\ (t \in DOMAIN gateway /\ t \notin DOMAIN transactionData) =>
                    t \notin DOMAIN transactionData'
       /\ \A p \in Procs :
             /\ (GatewayEnds(p, "awaitCreate", "returned")
                     /\ proc'[p].response[1].token # None) =>
                    LET t == proc'[p].response[1].token[1]
                    IN  /\ t \notin DOMAIN transactionData
                        /\ transactionData'[t] =
                               NewRecord(proc[p].req[1], proc[p].buyOrder[1], now)
                        /\ gateway'[t].amount = proc[p].req[1].amount[1]
             /\ (Starts(p, "confirm") /\ proc'[p].pc = "awaitCommit") =>
                    /\ proc'[p].token[1] \in DOMAIN transactionData
                    /\ proc'[p].storedData = Some(transactionData[proc'[p].token[1]])
             /\ (proc[p].pc = "awaitCommit" /\ proc'[p].pc = "awaitCommit") =>
                    /\ proc'[p].storedData = proc[p].storedData
                    /\ proc'[p].token = proc[p].token
             /\ GatewayEnds(p, "awaitCommit", "returned") =>
                    LET o == proc'[p].out[1]
                        d == proc[p].storedData[1]
                        g == proc'[p].response[1]
                    IN  /\ o.status = 200
                        /\ o.txStatus = g.status
                        /\ o.amount = g.amount
                        /\ g.amount = gateway[proc[p].token[1]].amount
                        /\ o.customerInfo = d.customerInfo
                        /\ o.cartItems = d.cartItems
                        /\ o.subtotal = d.subtotal
                        /\ o.discount = d.discount
                        /\ o.couponCode = d.couponCode
      ]_vars

\* a confirm answered 200 with Bob's purchase while Ana's record is stored
C20_Witness ==
    \E p \in Procs :
        /\ Finished(p, "confirm") /\ Status(p) = 200
        /\ proc[p].out[1].customerInfo = Bob
        /\ proc[p].out[1].subtotal = 30000
        /\ \E u \in DOMAIN transactionData : transactionData[u].customerInfo = Ana

RECURSIVE CartSum100(_)
\* the sum over the cart items of price times quantity, in hundredths
CartSum100(items) ==
    IF items = <<>> THEN 0
    ELSE CartSum100(SubSeq(items, 1, Len(items) - 1))
         + (100 * items[Len(items)].price.whole + items[Len(items)].price.hundredths)
               * items[Len(items)].quantity

\* C21: the record a begin stores has as subtotal the subtotal of the request when
\* the request has one, and the sum over the cart items of price times quantity when
\* it has none; as discount the discount of the request when it has one, 0 when it
\* has none.
C21_RecordPricing ==
    [][\A p \in Procs :
          GatewayEnds(p, "awaitCreate", "returned") =>
              LET r      == proc[p].req[1]
                  key    == KeyOf(proc'[p].response[1].token)
                  record == transactionData'[key]
              IN  /\ key \in DOMAIN transactionData'
                  /\ IF r.subtotal # None
                         THEN record.subtotal = r.subtotal[1]
                         ELSE 100 * record.subtotal = CartSum100(r.cartItems[1])
                  /\ IF r.discount # None
                         THEN record.discount = r.discount[1]
                         ELSE record.discount = 0
      ]_vars

====
